---- MODULE Spec2Model ----
(***************************************************************************)
(* Model of compiler-rt/lib/asan/asan_memory_profile.cpp:                   *)
(* __sanitizer_print_memory_profile, the lock / stop-the-world protocol    *)
(* around it, the HeapProfile aggregator and HeapProfile::Print.           *)
(*                                                                         *)
(* The build modelled is one with CAN_SANITIZE_LEAKS; `platform` selects   *)
(* between the SANITIZER_LINUX || SANITIZER_NETBSD branch ("dl", through   *)
(* dl_iterate_phdr) and the #else branch ("direct").                       *)
(*                                                                         *)
(* uptr arithmetic is modular.  The word is scaled down to UptrBits bits   *)
(* so that the products a.total_size * 100 stay inside TLC's integers; the *)
(* chunk sizes are chosen so that some heaps make the product wrap and     *)
(* some do not, while the sum of all chunk sizes always fits in a word (a  *)
(* heap cannot be larger than the address space).                          *)
(***************************************************************************)
EXTENDS Integers, Sequences, FiniteSets, Bags, TLC

\* ---------------------------------------------------------------- bounds
MaxChunks == 3
MaxHeap == 2
MaxModules == 2
UptrBits == 24
MaxCalls == 2

UptrMod == 2 ^ UptrBits

Sizes == {300, 700, 200000}
SiteIds == {0, 1, 2, 3}
TopPercents == {0, 50, 100}
MaxContexts == {0, 1, 2, 10}

Caller == "caller"
Others == {"t1", "t2"}
None == "none"
Platforms == {"dl", "direct"}

\* ---------------------------------------------------------- chunk records
\* What AsanChunkView exposes to ProcessChunk: IsAllocated / IsQuarantined,
\* UsedSize and GetAllocStackId.
Allocated(size, id) == [state |-> "Allocated", size |-> size, id |-> id]
Quarantined(size) == [state |-> "Quarantined", size |-> size, id |-> 0]
Other == [state |-> "Other", size |-> 0, id |-> 0]

ChunkRecords ==
  {Allocated(s, k) : s \in Sizes, k \in SiteIds}
    \cup {Quarantined(s) : s \in Sizes} \cup {Other}

RECURSIVE HeapsUpTo(_)
HeapsUpTo(n) ==
  IF n = 0 THEN {EmptyBag}
  ELSE LET smaller == HeapsUpTo(n - 1)
       IN smaller \cup {b (+) SetToBag({c}) : b \in smaller, c \in ChunkRecords}

\* ------------------------------------------------------- uptr arithmetic
AddW(a, b) == (a + b) % UptrMod
MulW(a, b) == (a * b) % UptrMod
Min(a, b) == IF a < b THEN a ELSE b

\* ------------------------------------------------------------ HeapProfile
\* Variant: the members have no initialisers, and the object starts with
\* what an earlier invocation left in its storage.
NewHeapProfile_Stale ==
  [total_allocated_user_size_ |-> 300,
   total_allocated_count_ |-> 1,
   total_quarantined_user_size_ |-> 0,
   total_quarantined_count_ |-> 0,
   total_other_count_ |-> 1,
   allocations_ |-> <<[id |-> 1, total_size |-> 300, count |-> 1]>>]

NewHeapProfile ==
  [total_allocated_user_size_ |-> 0,
   total_allocated_count_ |-> 0,
   total_quarantined_user_size_ |-> 0,
   total_quarantined_count_ |-> 0,
   total_other_count_ |-> 0,
   allocations_ |-> << >>]

\* Variant: a hit stores the chunk's size instead of adding it.
Insert_Overwrite(allocations, id, size) ==
  IF \E i \in 1..Len(allocations) : allocations[i].id = id
  THEN LET i == CHOOSE i \in 1..Len(allocations) :
                  /\ allocations[i].id = id
                  /\ \A j \in 1..(i - 1) : allocations[j].id # id
       IN [allocations EXCEPT ![i] =
             [id |-> id,
              total_size |-> size,
              count |-> AddW(allocations[i].count, 1)]]
  ELSE Append(allocations, [id |-> id, total_size |-> size, count |-> 1])

\* Variant: the lookup compares the last record only.
Insert_LastOnly(allocations, id, size) ==
  IF Len(allocations) > 0 /\ allocations[Len(allocations)].id = id
  THEN [allocations EXCEPT ![Len(allocations)] =
          [id |-> id,
           total_size |-> AddW(allocations[Len(allocations)].total_size, size),
           count |-> AddW(allocations[Len(allocations)].count, 1)]]
  ELSE Append(allocations, [id |-> id, total_size |-> size, count |-> 1])

Insert(allocations, id, size) ==
  IF \E i \in 1..Len(allocations) : allocations[i].id = id
  THEN LET i == CHOOSE i \in 1..Len(allocations) :
                  /\ allocations[i].id = id
                  /\ \A j \in 1..(i - 1) : allocations[j].id # id
       IN [allocations EXCEPT ![i] =
             [id |-> id,
              total_size |-> AddW(allocations[i].total_size, size),
              count |-> AddW(allocations[i].count, 1)]]
  ELSE Append(allocations, [id |-> id, total_size |-> size, count |-> 1])

\* Variant: the final else branch is missing.
ProcessChunk_NoElse(h, cv) ==
  IF cv.state = "Allocated"
  THEN [h EXCEPT
          !.total_allocated_user_size_ = AddW(@, cv.size),
          !.total_allocated_count_ = AddW(@, 1),
          !.allocations_ = IF cv.id # 0 THEN Insert(@, cv.id, cv.size) ELSE @]
  ELSE IF cv.state = "Quarantined"
  THEN [h EXCEPT
          !.total_quarantined_user_size_ = AddW(@, cv.size),
          !.total_quarantined_count_ = AddW(@, 1)]
  ELSE h

\* Variant: the test of id is missing.
ProcessChunk_NoIdCheck(h, cv) ==
  IF cv.state = "Allocated"
  THEN [h EXCEPT
          !.total_allocated_user_size_ = AddW(@, cv.size),
          !.total_allocated_count_ = AddW(@, 1),
          !.allocations_ = Insert(@, cv.id, cv.size)]
  ELSE IF cv.state = "Quarantined"
  THEN [h EXCEPT
          !.total_quarantined_user_size_ = AddW(@, cv.size),
          !.total_quarantined_count_ = AddW(@, 1)]
  ELSE [h EXCEPT !.total_other_count_ = AddW(@, 1)]

\* Variant: only the bytes of chunks with a stack id enter the allocated
\* total.
ProcessChunk_AttributedTotal(h, cv) ==
  IF cv.state = "Allocated"
  THEN [h EXCEPT
          !.total_allocated_user_size_ =
             IF cv.id # 0 THEN AddW(@, cv.size) ELSE @,
          !.total_allocated_count_ = AddW(@, 1),
          !.allocations_ = IF cv.id # 0 THEN Insert(@, cv.id, cv.size) ELSE @]
  ELSE IF cv.state = "Quarantined"
  THEN [h EXCEPT
          !.total_quarantined_user_size_ = AddW(@, cv.size),
          !.total_quarantined_count_ = AddW(@, 1)]
  ELSE [h EXCEPT !.total_other_count_ = AddW(@, 1)]

\* Variant: the quarantined branch increments the allocated count.
ProcessChunk_WrongCount(h, cv) ==
  IF cv.state = "Allocated"
  THEN [h EXCEPT
          !.total_allocated_user_size_ = AddW(@, cv.size),
          !.total_allocated_count_ = AddW(@, 1),
          !.allocations_ = IF cv.id # 0 THEN Insert(@, cv.id, cv.size) ELSE @]
  ELSE IF cv.state = "Quarantined"
  THEN [h EXCEPT
          !.total_quarantined_user_size_ = AddW(@, cv.size),
          !.total_allocated_count_ = AddW(@, 1)]
  ELSE [h EXCEPT !.total_other_count_ = AddW(@, 1)]

ProcessChunk(h, cv) ==
  IF cv.state = "Allocated"
  THEN [h EXCEPT
          !.total_allocated_user_size_ = AddW(@, cv.size),
          !.total_allocated_count_ = AddW(@, 1),
          !.allocations_ = IF cv.id # 0 THEN Insert(@, cv.id, cv.size) ELSE @]
  ELSE IF cv.state = "Quarantined"
  THEN [h EXCEPT
          !.total_quarantined_user_size_ = AddW(@, cv.size),
          !.total_quarantined_count_ = AddW(@, 1)]
  ELSE [h EXCEPT !.total_other_count_ = AddW(@, 1)]

\* Sort(data, size, comp) with comp(a, b) == a.total_size > b.total_size:
\* every arrangement of the records in which no later record is strictly
\* larger than an earlier one (the order among equal sizes is the sort's).
\* Variant: the comparator is a.total_size < b.total_size.
IsSortedAsc(s) ==
  \A i, j \in 1..Len(s) : i < j => s[i].total_size <= s[j].total_size

IsSortedDesc(s) ==
  \A i, j \in 1..Len(s) : i < j => s[i].total_size >= s[j].total_size

SortedOrders(allocations) ==
  {[i \in 1..Len(allocations) |-> allocations[p[i]]] :
      p \in {q \in Permutations(1..Len(allocations)) :
               IsSortedDesc([i \in 1..Len(allocations) |-> allocations[q[i]]])}}

\* The header Printf of Print.
HeaderLine(h, top, max) ==
  [kind |-> "header",
   allocated_bytes |-> h.total_allocated_user_size_,
   allocated_count |-> h.total_allocated_count_,
   quarantined_bytes |-> h.total_quarantined_user_size_,
   quarantined_count |-> h.total_quarantined_count_,
   other_count |-> h.total_other_count_,
   total_chunks |-> AddW(AddW(h.total_allocated_count_,
                              h.total_quarantined_count_),
                         h.total_other_count_),
   top_percent |-> top,
   max_number_of_contexts |-> max]

\* a.total_size * 100 / total_allocated_user_size_ in uptr arithmetic.
Percent(size, total) == MulW(size, 100) \div total

\* The per-site Printf of Print followed by StackDepotGet(a.id).Print().
SiteLine(h, a) ==
  [kind |-> "site",
   total_size |-> a.total_size,
   percent |-> Percent(a.total_size, h.total_allocated_user_size_),
   count |-> a.count,
   id |-> a.id]

StatsLine == [kind |-> "stats"]

\* ------------------------------------------------------------------ state
VARIABLES
  platform,            \* "dl": SANITIZER_LINUX || SANITIZER_NETBSD, else "direct"
  nmodules,            \* number of loaded modules dl_iterate_phdr walks
  modIdx,              \* module dl_iterate_phdr is at (0: not iterating)
  pc,                  \* position of the thread inside the call
  Arg,                 \* <<top_percent, max_number_of_contexts>>
  loaderLock,          \* holder of the dynamic loader's lock
  threadRegistryLock,  \* holder of the thread registry lock
  allocatorLock,       \* holder of the allocator lock
  stopped,             \* TRUE between StopTheWorld's suspend and resume
  tstate,              \* what each other thread is doing
  heap,                \* bag of the heap's chunks
  remaining,           \* chunks ForEachChunk has not passed to the callback
  hp,                  \* the HeapProfile local to MemoryProfileCB
  i,                   \* loop index of Print
  total_shown,         \* local of Print
  output,              \* lines written during the current suspended window
  events,              \* lock / freeze events of the current call, in order
  calls                \* invocations made so far, up to MaxCalls (-1: not counted)

vars ==
  <<platform, nmodules, modIdx, pc, Arg, loaderLock, threadRegistryLock,
    allocatorLock, stopped, tstate, heap, remaining, hp, i, total_shown,
    output, events, calls>>

top_percent == Arg[1]
max_number_of_contexts == Arg[2]

\* ------------------------------------------------ the calling thread
\* Variant: LockStuffAndStopTheWorld takes its #else branch on every
\* platform, calling LockDefStuffAndStopTheWorld outside dl_iterate_phdr.
LockStuffAndStopTheWorld_Direct(top, max) ==
  /\ pc = "idle"
  /\ Arg' = <<top, max>>
  /\ pc' = "LockThreadRegistry"
  /\ events' = << >>
  /\ calls' = IF calls < 0 THEN calls ELSE Min(calls + 1, MaxCalls)
  /\ UNCHANGED <<platform, nmodules, modIdx, loaderLock, threadRegistryLock,
                 allocatorLock, stopped, tstate, heap, remaining, hp, i,
                 total_shown, output>>

\* __sanitizer_print_memory_profile and the platform dispatch of
\* LockStuffAndStopTheWorld.
sanitizer_print_memory_profile(top, max) ==
  /\ pc = "idle"
  /\ Arg' = <<top, max>>
  /\ pc' = IF platform = "dl" THEN "dl_iterate_phdr" ELSE "LockThreadRegistry"
  /\ events' = << >>
  /\ calls' = IF calls < 0 THEN calls ELSE Min(calls + 1, MaxCalls)
  /\ UNCHANGED <<platform, nmodules, modIdx, loaderLock, threadRegistryLock,
                 allocatorLock, stopped, tstate, heap, remaining, hp, i,
                 total_shown, output>>

\* dl_iterate_phdr takes the loader's lock (waiting for its holder to
\* release it) before it calls the callback for the first module.
dl_iterate_phdr ==
  /\ pc = "dl_iterate_phdr"
  /\ loaderLock = None
  /\ loaderLock' = Caller
  /\ modIdx' = 1
  /\ pc' = "LockStuffAndStopTheWorldCallback"
  /\ UNCHANGED <<calls, platform, nmodules, Arg, threadRegistryLock, allocatorLock,
                 stopped, tstate, heap, remaining, hp, i, total_shown, output,
                 events>>

\* The callback calls LockDefStuffAndStopTheWorld(param).
LockStuffAndStopTheWorldCallback ==
  /\ pc = "LockStuffAndStopTheWorldCallback"
  /\ pc' = "LockThreadRegistry"
  /\ UNCHANGED <<calls, platform, nmodules, modIdx, Arg, loaderLock,
                 threadRegistryLock, allocatorLock, stopped, tstate, heap,
                 remaining, hp, i, total_shown, output, events>>

\* Variant: the callback returns 0, and dl_iterate_phdr goes on to the next
\* module.
LockStuffAndStopTheWorldCallbackResult_Continue == 1 - 1

\* Variant: the call of LockThreadRegistry is missing.
LockThreadRegistry_Skipped ==
  /\ pc = "LockThreadRegistry"
  /\ pc' = "LockAllocator"
  /\ UNCHANGED <<calls, platform, nmodules, modIdx, Arg, loaderLock,
                 threadRegistryLock, allocatorLock, stopped, tstate, heap,
                 remaining, hp, i, total_shown, output, events>>

\* The value the callback returns to dl_iterate_phdr.
LockStuffAndStopTheWorldCallbackResult == 1

LockThreadRegistry ==
  /\ pc = "LockThreadRegistry"
  /\ threadRegistryLock = None
  /\ threadRegistryLock' = Caller
  /\ events' = Append(events, "LockThreadRegistry")
  /\ pc' = "LockAllocator"
  /\ UNCHANGED <<calls, platform, nmodules, modIdx, Arg, loaderLock, allocatorLock,
                 stopped, tstate, heap, remaining, hp, i, total_shown, output>>

\* Variant: the call of LockAllocator is missing.
LockAllocator_Skipped ==
  /\ pc = "LockAllocator"
  /\ pc' = "StopTheWorld"
  /\ UNCHANGED <<calls, platform, nmodules, modIdx, Arg, loaderLock,
                 threadRegistryLock, allocatorLock, stopped, tstate, heap,
                 remaining, hp, i, total_shown, output, events>>

LockAllocator ==
  /\ pc = "LockAllocator"
  /\ allocatorLock = None
  /\ allocatorLock' = Caller
  /\ events' = Append(events, "LockAllocator")
  /\ pc' = "StopTheWorld"
  /\ UNCHANGED <<calls, platform, nmodules, modIdx, Arg, loaderLock,
                 threadRegistryLock, stopped, tstate, heap, remaining, hp, i,
                 total_shown, output>>

\* StopTheWorld suspends every other thread, wherever it is, and then runs
\* the callback.
StopTheWorld ==
  /\ pc = "StopTheWorld"
  /\ stopped' = TRUE
  /\ events' = Append(events, "StopTheWorld")
  /\ pc' = "MemoryProfileCB"
  /\ UNCHANGED <<calls, platform, nmodules, modIdx, Arg, loaderLock,
                 threadRegistryLock, allocatorLock, tstate, heap, remaining,
                 hp, i, total_shown, output>>

\* MemoryProfileCB: HeapProfile hp; __lsan::ForEachChunk(ChunkCallback, &hp)
\* starts its walk over the chunks of the heap.
MemoryProfileCB ==
  /\ pc = "MemoryProfileCB"
  /\ hp' = NewHeapProfile
  /\ remaining' = heap
  /\ pc' = "ForEachChunk"
  /\ UNCHANGED <<calls, platform, nmodules, modIdx, Arg, loaderLock,
                 threadRegistryLock, allocatorLock, stopped, tstate, heap, i,
                 total_shown, output, events>>

\* ForEachChunk calls ChunkCallback once for a chunk, in the enumerator's
\* order.
ChunkCallback(cv) ==
  /\ pc = "ForEachChunk"
  /\ BagIn(cv, remaining)
  /\ hp' = ProcessChunk(hp, cv)
  /\ remaining' = remaining (-) SetToBag({cv})
  /\ UNCHANGED <<calls, platform, nmodules, modIdx, pc, Arg, loaderLock,
                 threadRegistryLock, allocatorLock, stopped, tstate, heap, i,
                 total_shown, output, events>>

\* Variant: the callback only aggregates, and Print runs once the threads
\* have been resumed.
PrintSortCheck_AfterResume ==
  /\ pc = "ForEachChunk"
  /\ remaining = EmptyBag
  /\ stopped' = FALSE
  /\ \E sorted \in SortedOrders(hp.allocations_) :
        hp' = [hp EXCEPT !.allocations_ = sorted]
  /\ pc' = IF hp.total_allocated_user_size_ = 0 THEN "aborted"
           ELSE "PrintHeader"
  /\ UNCHANGED <<calls, platform, nmodules, modIdx, Arg, loaderLock,
                 threadRegistryLock, allocatorLock, tstate, heap,
                 remaining, i, total_shown, output, events>>

\* Variant: the CHECK follows the header Printf.
PrintSortCheck_HeaderFirst ==
  /\ pc = "ForEachChunk"
  /\ remaining = EmptyBag
  /\ \E sorted \in SortedOrders(hp.allocations_) :
        hp' = [hp EXCEPT !.allocations_ = sorted]
  /\ output' = Append(output, HeaderLine(hp, top_percent, max_number_of_contexts))
  /\ pc' = IF hp.total_allocated_user_size_ = 0 THEN "aborted"
           ELSE "PrintLoop"
  /\ UNCHANGED <<calls, platform, nmodules, modIdx, Arg, loaderLock,
                 threadRegistryLock, allocatorLock, stopped, tstate, heap,
                 remaining, i, total_shown, events>>

\* Variant: a failing CHECK leaves through a scope that resumes the world
\* and releases the locks.
PrintSortCheck_ReleaseOnAbort ==
  /\ pc = "ForEachChunk"
  /\ remaining = EmptyBag
  /\ \E sorted \in SortedOrders(hp.allocations_) :
        hp' = [hp EXCEPT !.allocations_ = sorted]
  /\ IF hp.total_allocated_user_size_ = 0
     THEN /\ pc' = "aborted"
          /\ stopped' = FALSE
          /\ allocatorLock' = None
          /\ threadRegistryLock' = None
     ELSE /\ pc' = "PrintHeader"
          /\ UNCHANGED <<calls, stopped, allocatorLock, threadRegistryLock>>
  /\ UNCHANGED <<calls, platform, nmodules, modIdx, Arg, loaderLock, tstate, heap,
                 remaining, i, total_shown, output, events>>

\* hp.Print, up to the CHECK: Sort, then CHECK(total_allocated_user_size_),
\* which aborts the process on 0.
PrintSortCheck ==
  /\ pc = "ForEachChunk"
  /\ remaining = EmptyBag
  /\ \E sorted \in SortedOrders(hp.allocations_) :
        hp' = [hp EXCEPT !.allocations_ = sorted]
  /\ pc' = IF hp.total_allocated_user_size_ = 0 THEN "aborted"
           ELSE "PrintHeader"
  /\ UNCHANGED <<calls, platform, nmodules, modIdx, Arg, loaderLock,
                 threadRegistryLock, allocatorLock, stopped, tstate, heap,
                 remaining, i, total_shown, output, events>>

\* total_shown = 0, the header Printf, and the loop's i = 0.
PrintHeader ==
  /\ pc = "PrintHeader"
  /\ total_shown' = 0
  /\ output' = Append(output, HeaderLine(hp, top_percent, max_number_of_contexts))
  /\ i' = 0
  /\ pc' = "PrintLoop"
  /\ UNCHANGED <<calls, platform, nmodules, modIdx, Arg, loaderLock,
                 threadRegistryLock, allocatorLock, stopped, tstate, heap,
                 remaining, hp, events>>

\* The loop test of Print.
LoopCond(n, max, k) == k < Min(n, max)

\* The break test of Print.
BreakCond(shown, total, top) == Percent(shown, total) > top

\* One iteration of Print's loop.  StackDepotGet(a.id).Print() symbolizes
\* through dl_iterate_phdr where the platform has it, which needs the
\* loader's lock (recursive for its holder).
PrintSite ==
  /\ pc = "PrintLoop"
  /\ LoopCond(Len(hp.allocations_), max_number_of_contexts, i)
  /\ platform = "dl" => loaderLock \in {None, Caller}
  /\ LET a == hp.allocations_[i + 1]
         shown == AddW(total_shown, a.total_size)
     IN /\ output' = Append(output, SiteLine(hp, a))
        /\ total_shown' = shown
        /\ IF BreakCond(shown, hp.total_allocated_user_size_, top_percent)
           THEN pc' = "Verbosity" /\ i' = i
           ELSE pc' = "PrintLoop" /\ i' = i + 1
  /\ UNCHANGED <<calls, platform, nmodules, modIdx, Arg, loaderLock,
                 threadRegistryLock, allocatorLock, stopped, tstate, heap,
                 remaining, hp, events>>

\* The loop ends on its condition.
PrintLoopEnd ==
  /\ pc = "PrintLoop"
  /\ ~LoopCond(Len(hp.allocations_), max_number_of_contexts, i)
  /\ pc' = "Verbosity"
  /\ UNCHANGED <<calls, platform, nmodules, modIdx, Arg, loaderLock,
                 threadRegistryLock, allocatorLock, stopped, tstate, heap,
                 remaining, hp, i, total_shown, output, events>>

\* if (Verbosity()) __asan_print_accumulated_stats(); then MemoryProfileCB
\* returns and its locals are gone.
MemoryProfileCBReturn ==
  /\ pc = "Verbosity"
  /\ \E verbosity \in BOOLEAN :
        output' = IF verbosity THEN Append(output, StatsLine) ELSE output
  /\ hp' = NewHeapProfile
  /\ i' = 0
  /\ total_shown' = 0
  /\ pc' = "Resume"
  /\ UNCHANGED <<calls, platform, nmodules, modIdx, Arg, loaderLock,
                 threadRegistryLock, allocatorLock, stopped, tstate, heap,
                 remaining, events>>

\* StopTheWorld resumes the suspended threads and returns.
StopTheWorldResume ==
  /\ pc = "Resume"
  /\ stopped' = FALSE
  /\ output' = << >>
  /\ events' = Append(events, "Resume")
  /\ pc' = "UnlockAllocator"
  /\ UNCHANGED <<calls, platform, nmodules, modIdx, Arg, loaderLock,
                 threadRegistryLock, allocatorLock, tstate, heap, remaining,
                 hp, i, total_shown>>

\* Variant: the call of UnlockAllocator is missing.
UnlockAllocator_Missing ==
  /\ pc = "UnlockAllocator"
  /\ pc' = "UnlockThreadRegistry"
  /\ UNCHANGED <<calls, platform, nmodules, modIdx, Arg, loaderLock,
                 threadRegistryLock, allocatorLock, stopped, tstate, heap,
                 remaining, hp, i, total_shown, output, events>>

UnlockAllocator ==
  /\ pc = "UnlockAllocator"
  /\ allocatorLock' = None
  /\ events' = Append(events, "UnlockAllocator")
  /\ pc' = "UnlockThreadRegistry"
  /\ UNCHANGED <<calls, platform, nmodules, modIdx, Arg, loaderLock,
                 threadRegistryLock, stopped, tstate, heap, remaining, hp, i,
                 total_shown, output>>

\* UnlockThreadRegistry ends LockDefStuffAndStopTheWorld: on "direct" the
\* call returns, on "dl" the callback returns to dl_iterate_phdr.
UnlockThreadRegistry ==
  /\ pc = "UnlockThreadRegistry"
  /\ threadRegistryLock' = None
  /\ events' = Append(events, "UnlockThreadRegistry")
  /\ pc' = IF platform = "dl" THEN "CallbackReturn" ELSE "idle"
  /\ UNCHANGED <<calls, platform, nmodules, modIdx, Arg, loaderLock, allocatorLock,
                 stopped, tstate, heap, remaining, hp, i, total_shown, output>>

\* dl_iterate_phdr after a callback: a non-zero result, or the last module,
\* ends the iteration (the loader's lock is released and the call returns);
\* otherwise the callback runs for the next module.
dl_iterate_phdr_next ==
  /\ pc = "CallbackReturn"
  /\ IF LockStuffAndStopTheWorldCallbackResult # 0 \/ modIdx >= nmodules
     THEN /\ loaderLock' = None
          /\ modIdx' = 0
          /\ pc' = "idle"
     ELSE /\ loaderLock' = loaderLock
          /\ modIdx' = modIdx + 1
          /\ pc' = "LockStuffAndStopTheWorldCallback"
  /\ UNCHANGED <<calls, platform, nmodules, Arg, threadRegistryLock, allocatorLock,
                 stopped, tstate, heap, remaining, hp, i, total_shown, output,
                 events>>

\* ------------------------------------------------ the other threads
\* A thread runs only while the world is not stopped and the process has
\* not aborted.
Runs(t) == ~stopped /\ pc # "aborted" /\ t \in Others

OtherLock(t, lock, what) ==
  /\ Runs(t)
  /\ tstate[t] = "idle"
  /\ lock = None
  /\ tstate' = [tstate EXCEPT ![t] = what]

OtherLoaderLock(t) ==
  /\ OtherLock(t, loaderLock, "loader")
  /\ loaderLock' = t
  /\ UNCHANGED <<calls, platform, nmodules, modIdx, pc, Arg, threadRegistryLock,
                 allocatorLock, stopped, heap, remaining, hp, i, total_shown,
                 output, events>>

OtherLoaderUnlock(t) ==
  /\ Runs(t)
  /\ tstate[t] = "loader"
  /\ tstate' = [tstate EXCEPT ![t] = "idle"]
  /\ loaderLock' = None
  /\ UNCHANGED <<calls, platform, nmodules, modIdx, pc, Arg, threadRegistryLock,
                 allocatorLock, stopped, heap, remaining, hp, i, total_shown,
                 output, events>>

OtherThreadRegistryLock(t) ==
  /\ OtherLock(t, threadRegistryLock, "registry")
  /\ threadRegistryLock' = t
  /\ UNCHANGED <<calls, platform, nmodules, modIdx, pc, Arg, loaderLock,
                 allocatorLock, stopped, heap, remaining, hp, i, total_shown,
                 output, events>>

OtherThreadRegistryUnlock(t) ==
  /\ Runs(t)
  /\ tstate[t] = "registry"
  /\ tstate' = [tstate EXCEPT ![t] = "idle"]
  /\ threadRegistryLock' = None
  /\ UNCHANGED <<calls, platform, nmodules, modIdx, pc, Arg, loaderLock,
                 allocatorLock, stopped, heap, remaining, hp, i, total_shown,
                 output, events>>

OtherAllocatorLock(t) ==
  /\ OtherLock(t, allocatorLock, "allocator")
  /\ allocatorLock' = t
  /\ UNCHANGED <<calls, platform, nmodules, modIdx, pc, Arg, loaderLock,
                 threadRegistryLock, stopped, heap, remaining, hp, i,
                 total_shown, output, events>>

\* What one allocator operation does to the chunks: malloc adds an
\* allocated chunk, free quarantines one, the quarantine recycles one, and
\* a recycled chunk is unmapped.
HeapSuccessors(h) ==
  {h (+) SetToBag({c}) : c \in {x \in ChunkRecords :
       x.state = "Allocated" /\ BagCardinality(h) < MaxHeap}}
  \cup {(h (-) SetToBag({c})) (+) SetToBag({Quarantined(c.size)}) :
          c \in {x \in BagToSet(h) : x.state = "Allocated"}}
  \cup {(h (-) SetToBag({c})) (+) SetToBag({Other}) :
          c \in {x \in BagToSet(h) : x.state = "Quarantined"}}
  \cup {h (-) SetToBag({c}) : c \in {x \in BagToSet(h) : x.state = "Other"}}

\* A thread holding the allocator lock performs one allocator operation and
\* releases the lock.
OtherAllocatorUnlock(t) ==
  /\ Runs(t)
  /\ tstate[t] = "allocator"
  /\ tstate' = [tstate EXCEPT ![t] = "idle"]
  /\ allocatorLock' = None
  /\ heap' \in HeapSuccessors(heap)
  /\ UNCHANGED <<calls, platform, nmodules, modIdx, pc, Arg, loaderLock,
                 threadRegistryLock, stopped, remaining, hp, i, total_shown,
                 output, events>>

\* --------------------------------------------------------- specifications
Init ==
  /\ platform \in Platforms
  /\ nmodules \in 1..MaxModules
  /\ platform = "direct" => nmodules = 1
  /\ modIdx = 0
  /\ pc = "idle"
  /\ Arg = <<0, 0>>
  /\ loaderLock = None
  /\ threadRegistryLock = None
  /\ allocatorLock = None
  /\ stopped = FALSE
  /\ tstate = [t \in Others |-> "idle"]
  /\ heap = EmptyBag
  /\ remaining = EmptyBag
  /\ hp = NewHeapProfile
  /\ i = 0
  /\ total_shown = 0
  /\ output = << >>
  /\ events = << >>
  /\ calls = -1

CallbackNext ==
  \/ MemoryProfileCB
  \/ \E cv \in ChunkRecords : ChunkCallback(cv)
  \/ PrintSortCheck
  \/ PrintHeader
  \/ PrintSite
  \/ PrintLoopEnd
  \/ MemoryProfileCBReturn

Next ==
  \/ \E top \in TopPercents, max \in MaxContexts :
        sanitizer_print_memory_profile(top, max)
  \/ dl_iterate_phdr
  \/ LockStuffAndStopTheWorldCallback
  \/ LockThreadRegistry
  \/ LockAllocator
  \/ StopTheWorld
  \/ CallbackNext
  \/ StopTheWorldResume
  \/ UnlockAllocator
  \/ UnlockThreadRegistry
  \/ dl_iterate_phdr_next
  \/ \E t \in Others :
        \/ OtherLoaderLock(t)
        \/ OtherLoaderUnlock(t)
        \/ OtherThreadRegistryLock(t)
        \/ OtherThreadRegistryUnlock(t)
        \/ OtherAllocatorLock(t)
        \/ OtherAllocatorUnlock(t)

Spec == Init /\ [][Next]_vars

\* The program under fair scheduling, with fewer inputs: three calls'
\* arguments (a break after the first line, a cap of 0, the whole list) and
\* three kinds of chunk to allocate.
LiveArgs == {<<0, 10>>, <<50, 0>>, <<100, 10>>}
LiveMallocs == {Allocated(300, 1), Allocated(700, 2), Allocated(300, 0)}

LiveHeapSuccessors(h) ==
  {h (+) SetToBag({c}) : c \in {x \in LiveMallocs :
       BagCardinality(h) < MaxHeap}}
  \cup {(h (-) SetToBag({c})) (+) SetToBag({Quarantined(c.size)}) :
          c \in {x \in BagToSet(h) : x.state = "Allocated"}}
  \cup {(h (-) SetToBag({c})) (+) SetToBag({Other}) :
          c \in {x \in BagToSet(h) : x.state = "Quarantined"}}
  \cup {h (-) SetToBag({c}) : c \in {x \in BagToSet(h) : x.state = "Other"}}

LiveAllocatorUnlock(t) ==
  /\ Runs(t)
  /\ tstate[t] = "allocator"
  /\ tstate' = [tstate EXCEPT ![t] = "idle"]
  /\ allocatorLock' = None
  /\ heap' \in LiveHeapSuccessors(heap)
  /\ UNCHANGED <<calls, platform, nmodules, modIdx, pc, Arg, loaderLock,
                 threadRegistryLock, stopped, remaining, hp, i, total_shown,
                 output, events>>

NextLive ==
  \/ \E a \in LiveArgs : sanitizer_print_memory_profile(a[1], a[2])
  \/ dl_iterate_phdr
  \/ LockStuffAndStopTheWorldCallback
  \/ LockThreadRegistry
  \/ LockAllocator
  \/ StopTheWorld
  \/ CallbackNext
  \/ StopTheWorldResume
  \/ UnlockAllocator
  \/ UnlockThreadRegistry
  \/ dl_iterate_phdr_next
  \/ \E t \in Others :
        \/ OtherLoaderLock(t)
        \/ OtherLoaderUnlock(t)
        \/ OtherThreadRegistryLock(t)
        \/ OtherThreadRegistryUnlock(t)
        \/ OtherAllocatorLock(t)
        \/ LiveAllocatorUnlock(t)

\* Fair scheduling: a thread that can step does step; a lock that is free
\* again and again is obtained by the thread that waits for it; another
\* thread that holds a lock releases it once it runs.  Whether and when the
\* program calls the entry point is left open.
Fairness ==
  /\ SF_vars(dl_iterate_phdr)
  /\ SF_vars(LockThreadRegistry)
  /\ SF_vars(LockAllocator)
  /\ WF_vars(LockStuffAndStopTheWorldCallback)
  /\ WF_vars(StopTheWorld)
  /\ WF_vars(CallbackNext)
  /\ WF_vars(StopTheWorldResume)
  /\ WF_vars(UnlockAllocator)
  /\ WF_vars(UnlockThreadRegistry)
  /\ WF_vars(dl_iterate_phdr_next)
  /\ \A t \in Others :
        /\ WF_vars(OtherLoaderUnlock(t))
        /\ WF_vars(OtherThreadRegistryUnlock(t))
        /\ WF_vars(LiveAllocatorUnlock(t))

SpecFair == Init /\ [][NextLive]_vars /\ Fairness

\* The suspended window on its own: MemoryProfileCB entered with the world
\* stopped and the locks held, over every heap of up to MaxChunks chunks.
EventsAtCallback == <<"LockThreadRegistry", "LockAllocator", "StopTheWorld">>

InitCB ==
  /\ platform = "dl"
  /\ nmodules = 1
  /\ modIdx = 1
  /\ pc = "MemoryProfileCB"
  /\ Arg \in TopPercents \X MaxContexts
  /\ loaderLock = Caller
  /\ threadRegistryLock = Caller
  /\ allocatorLock = Caller
  /\ stopped = TRUE
  /\ tstate = [t \in Others |-> "idle"]
  /\ heap \in HeapsUpTo(MaxChunks)
  /\ remaining = EmptyBag
  /\ hp = NewHeapProfile
  /\ i = 0
  /\ total_shown = 0
  /\ output = << >>
  /\ events = EventsAtCallback
  /\ calls = -1

SpecCB == InitCB /\ [][CallbackNext]_vars

\* Invocation after invocation by the one thread, over every heap of up to
\* MaxHeap chunks, with the invocations counted.
InitRepeat ==
  /\ platform \in Platforms
  /\ nmodules \in 1..MaxModules
  /\ platform = "direct" => nmodules = 1
  /\ modIdx = 0
  /\ pc = "idle"
  /\ Arg = <<0, 0>>
  /\ loaderLock = None
  /\ threadRegistryLock = None
  /\ allocatorLock = None
  /\ stopped = FALSE
  /\ tstate = [t \in Others |-> "idle"]
  /\ heap \in HeapsUpTo(MaxHeap)
  /\ remaining = EmptyBag
  /\ hp = NewHeapProfile
  /\ i = 0
  /\ total_shown = 0
  /\ output = << >>
  /\ events = << >>
  /\ calls = 0

CallerNext ==
  \/ \E top \in TopPercents, max \in MaxContexts :
        sanitizer_print_memory_profile(top, max)
  \/ dl_iterate_phdr
  \/ LockStuffAndStopTheWorldCallback
  \/ LockThreadRegistry
  \/ LockAllocator
  \/ StopTheWorld
  \/ CallbackNext
  \/ StopTheWorldResume
  \/ UnlockAllocator
  \/ UnlockThreadRegistry
  \/ dl_iterate_phdr_next

SpecRepeat == InitRepeat /\ [][CallerNext]_vars

\* ================================================================ claims
Range(s) == {s[k] : k \in DOMAIN s}
Happened(e) == e \in Range(events)
Count(e) == Cardinality({k \in DOMAIN events : events[k] = e})
First(e) == CHOOSE k \in DOMAIN events :
               events[k] = e /\ \A j \in 1..(k - 1) : events[j] # e
\* a happened, and did so before b, whenever b happened
Precedes(a, b) == Happened(b) => Happened(a) /\ First(a) < First(b)

\* C1, as stated: in every invocation the allocator lock is acquired first
\* and the thread registry lock second, both before StopTheWorld is invoked.
C1_AllocatorFirst ==
  /\ Precedes("LockAllocator", "LockThreadRegistry")
  /\ Precedes("LockThreadRegistry", "StopTheWorld")
  /\ Precedes("LockAllocator", "StopTheWorld")

\* C1, amended: in every invocation the thread registry lock is acquired
\* first and the allocator lock second, and both are held by the calling
\* thread before StopTheWorld is invoked and while the world is stopped.
C1_ThreadRegistryFirst ==
  /\ Precedes("LockThreadRegistry", "LockAllocator")
  /\ Precedes("LockThreadRegistry", "StopTheWorld")
  /\ Precedes("LockAllocator", "StopTheWorld")
  /\ pc = "LockAllocator" => threadRegistryLock = Caller /\ allocatorLock # Caller
  /\ pc = "StopTheWorld" \/ stopped =>
        threadRegistryLock = Caller /\ allocatorLock = Caller

C1_Witness ==
  /\ stopped
  /\ events = <<"LockThreadRegistry", "LockAllocator", "StopTheWorld">>
  /\ \E t \in Others : tstate[t] # "idle"

\* C2: the two locks are released only after StopTheWorld has returned, in
\* the reverse of the order of their acquisition; when the call returns the
\* calling thread holds neither, and each was acquired and released once.
Returned == pc = "idle" /\ events # << >>

C2_ReleaseAfterResumeInReverse ==
  /\ Precedes("Resume", "UnlockAllocator")
  /\ Precedes("Resume", "UnlockThreadRegistry")
  /\ Precedes("StopTheWorld", "Resume")
  /\ \A x, y \in {"Allocator", "ThreadRegistry"} :
        /\ Happened("Lock" \o x) /\ Happened("Lock" \o y)
        /\ First("Lock" \o x) < First("Lock" \o y)
        /\ Happened("Unlock" \o x)
        => /\ Happened("Unlock" \o y)
           /\ First("Unlock" \o y) < First("Unlock" \o x)
  /\ \A e \in Range(events) : Count(e) = 1
  /\ ~Happened("Resume") /\ Happened("LockAllocator") => allocatorLock = Caller
  /\ ~Happened("Resume") /\ Happened("LockThreadRegistry") =>
        threadRegistryLock = Caller
  /\ Returned =>
        /\ threadRegistryLock # Caller
        /\ allocatorLock # Caller
        /\ \A e \in {"LockThreadRegistry", "LockAllocator", "StopTheWorld",
                     "Resume", "UnlockAllocator", "UnlockThreadRegistry"} :
              Count(e) = 1

C2_Witness == Returned /\ nmodules > 1

\* C3: where dl_iterate_phdr is used, the calling thread holds the loader's
\* lock from before any thread is suspended until the world is resumed, so
\* no suspended thread is the holder of the loader's lock, whatever the
\* other threads do with that lock.
C3_NoFrozenLoaderLockHolder ==
  platform = "dl" =>
    /\ pc = "StopTheWorld" \/ stopped => loaderLock = Caller
    /\ stopped => \A t \in Others : tstate[t] # "loader" /\ loaderLock # t
    /\ Happened("LockThreadRegistry") /\ pc # "idle" => loaderLock = Caller

C3_Witness ==
  /\ platform = "dl"
  /\ stopped
  /\ pc = "PrintLoop"
  /\ loaderLock = Caller

\* C4, as stated: every report line is emitted after StopTheWorld has
\* resumed the other threads, never while they are suspended.
C4_LinesAfterResume ==
  [][Len(output') > Len(output) => ~stopped /\ Happened("Resume")]_vars

\* C4, amended: every report line is emitted inside the StopTheWorld
\* callback, after the chunk walk has ended and before the threads are
\* resumed: the world is stopped when the line is written and still is
\* afterwards.
C4_LinesWhileStopped ==
  [][Len(output') > Len(output) =>
        /\ stopped /\ stopped'
        /\ ~Happened("Resume")
        /\ Happened("StopTheWorld")
        /\ remaining = EmptyBag]_vars

C4_Witness ==
  /\ stopped
  /\ Len(output) >= 2
  /\ output[1].kind = "header"
  /\ output[2].kind = "site"

\* ----------------------------------------------------- the aggregator
\* The records ChunkCallback has passed to hp so far, and the positions at
\* which hp holds their aggregate.
observed == heap (-) remaining
Aggregating == pc \in {"ForEachChunk", "PrintHeader", "PrintLoop", "Verbosity"}

RECURSIVE BagToSeq(_)
BagToSeq(b) ==
  IF b = EmptyBag THEN << >>
  ELSE LET c == CHOOSE x \in BagToSet(b) : TRUE
       IN <<c>> \o BagToSeq(b (-) SetToBag({c}))

RECURSIVE SumSize(_)
SumSize(s) == IF s = << >> THEN 0 ELSE Head(s).size + SumSize(Tail(s))

RECURSIVE SumTotalSize(_)
SumTotalSize(s) ==
  IF s = << >> THEN 0 ELSE Head(s).total_size + SumTotalSize(Tail(s))

RECURSIVE SumCount(_)
SumCount(s) == IF s = << >> THEN 0 ELSE Head(s).count + SumCount(Tail(s))

IsUnattributed(c) == c.state = "Allocated" /\ c.id = 0
IsAttributed(c) == c.state = "Allocated" /\ c.id # 0
IsHeader(line) == line.kind = "header"
IsSite(line) == line.kind = "site"

\* C5: the three counts add up to the number of records observed, and the
\* "total chunks" of the header is that sum.
C5_Conservation ==
  /\ Aggregating =>
        hp.total_allocated_count_ + hp.total_quarantined_count_
            + hp.total_other_count_ = BagCardinality(observed)
  /\ \A k \in DOMAIN output :
        IsHeader(output[k]) =>
          /\ output[k].total_chunks = BagCardinality(heap)
          /\ output[k].total_chunks =
                output[k].allocated_count + output[k].quarantined_count
                  + output[k].other_count
          /\ Aggregating =>
                output[k].total_chunks =
                  hp.total_allocated_count_ + hp.total_quarantined_count_
                    + hp.total_other_count_

C5_Witness ==
  /\ pc = "Verbosity"
  /\ IsHeader(output[1])
  /\ output[1].total_chunks = 3
  /\ hp.total_allocated_count_ = 1
  /\ hp.total_quarantined_count_ = 1
  /\ hp.total_other_count_ = 1

\* C6: the sites' total_size plus the bytes of the allocated chunks with
\* id 0 add up to the allocated bytes, and the sites' count plus the number
\* of those chunks to the allocated count.
C6_AttributionSum ==
  Aggregating =>
    LET unattributed == SelectSeq(BagToSeq(observed), IsUnattributed)
    IN /\ SumTotalSize(hp.allocations_) + SumSize(unattributed)
            = hp.total_allocated_user_size_
       /\ SumCount(hp.allocations_) + Len(unattributed)
            = hp.total_allocated_count_

C6_Witness ==
  /\ pc = "ForEachChunk"
  /\ remaining = EmptyBag
  /\ Len(hp.allocations_) = 1
  /\ hp.allocations_[1].count = 2
  /\ hp.total_allocated_count_ = 3

\* C7: the site list holds at most one record per id, none with id 0, each
\* with count >= 1, and a record for id k exactly when an allocated chunk
\* with id k # 0 has been observed.
C7_SiteUniqueness ==
  Aggregating =>
    /\ \A a, b \in DOMAIN hp.allocations_ :
          hp.allocations_[a].id = hp.allocations_[b].id => a = b
    /\ \A a \in DOMAIN hp.allocations_ :
          hp.allocations_[a].id # 0 /\ hp.allocations_[a].count >= 1
    /\ {hp.allocations_[a].id : a \in DOMAIN hp.allocations_}
          = {c.id : c \in {x \in BagToSet(observed) : IsAttributed(x)}}

C7_Witness ==
  /\ pc = "ForEachChunk"
  /\ remaining = EmptyBag
  /\ Len(hp.allocations_) = 2
  /\ \E a \in DOMAIN hp.allocations_ : hp.allocations_[a].count = 2

\* Feeding a sequence of records to a fresh HeapProfile.
RECURSIVE AggregateAll(_, _)
AggregateAll(h, s) ==
  IF s = << >> THEN h ELSE AggregateAll(ProcessChunk(h, Head(s)), Tail(s))

SameAggregate(g, h) ==
  /\ g.total_allocated_user_size_ = h.total_allocated_user_size_
  /\ g.total_allocated_count_ = h.total_allocated_count_
  /\ g.total_quarantined_user_size_ = h.total_quarantined_user_size_
  /\ g.total_quarantined_count_ = h.total_quarantined_count_
  /\ g.total_other_count_ = h.total_other_count_
  /\ Range(g.allocations_) = Range(h.allocations_)

\* C8: whatever the order in which the records observed are fed to a fresh
\* aggregator, the five totals and the set of site records are those of hp,
\* which got them in the enumerator's order (so any two orders agree).
C8_OrderIndependence ==
  Aggregating =>
    LET s == BagToSeq(observed)
    IN \A p \in Permutations(1..Len(s)) :
          SameAggregate(
            AggregateAll(NewHeapProfile, [k \in 1..Len(s) |-> s[p[k]]]), hp)

C8_Witness ==
  /\ pc = "ForEachChunk"
  /\ remaining = EmptyBag
  /\ BagCardinality(heap) = 3
  /\ Len(hp.allocations_) = 2
  /\ hp.allocations_[1].total_size = 1000
  /\ hp.allocations_[2].total_size = 200000

\* ------------------------------------------------------- the renderer
SiteLines == SelectSeq(output, IsSite)

\* The percentage over the integers, without the word's width.
ExactPercent(size, total) == (size * 100) \div total

\* Bytes of the first k records of the sorted list.
Cumulative(k) == SumTotalSize(SubSeq(hp.allocations_, 1, k))

\* C9: with allocated bytes > 0, at most max_number_of_contexts site lines
\* are emitted, they are the first records of the sorted list, and the last
\* of them is the first record after which the cumulative percentage of the
\* allocated bytes exceeds top_percent when that record lies within the cap
\* (otherwise every record within the cap is emitted).
C9_SelectionMonotonicity ==
  pc = "Verbosity" =>
    LET total == hp.total_allocated_user_size_
        cap == Min(Len(hp.allocations_), max_number_of_contexts)
        crossing == {k \in 1..cap :
                       ExactPercent(Cumulative(k), total) > top_percent}
    IN /\ Len(SiteLines) <= max_number_of_contexts
       /\ \A k \in 1..Len(SiteLines) :
             SiteLines[k].id = hp.allocations_[k].id
       /\ Len(SiteLines) =
             IF crossing = {} THEN cap
             ELSE CHOOSE k \in crossing : \A j \in crossing : k <= j

\* C10: the percentage of every site line is floor(total_size * 100 /
\* allocated bytes) over the integers.
C10_PercentTruncation ==
  pc \in {"PrintLoop", "Verbosity"} =>
    \A k \in DOMAIN SiteLines :
       SiteLines[k].percent =
         ExactPercent(SiteLines[k].total_size, hp.total_allocated_user_size_)

\* What the heap holds, counted without the aggregator.
IsAllocated(c) == c.state = "Allocated"
IsQuarantined(c) == c.state = "Quarantined"
IsOther(c) == c.state = "Other"
AllocatedBytes(b) == SumSize(SelectSeq(BagToSeq(b), IsAllocated))
AttributedBytes(b) == SumSize(SelectSeq(BagToSeq(b), IsAttributed))

\* The number of site lines Print emits when its break test divides by
\* `denominator`: the first record within the cap after which the test
\* holds, else the cap.
LinesListed(denominator) ==
  LET cap == Min(Len(hp.allocations_), max_number_of_contexts)
      crossing == {k \in 1..cap :
                     Percent(Cumulative(k), denominator) > top_percent}
  IN IF crossing = {} THEN cap
     ELSE CHOOSE k \in crossing : \A j \in crossing : k <= j

\* C11, as stated: the stop test compares the cumulative shown bytes with
\* the bytes attributed to sites, so allocated chunks with id 0 do not
\* change which site lines are listed.
C11_AttributedDenominator ==
  pc = "Verbosity" => Len(SiteLines) = LinesListed(AttributedBytes(heap))

\* C11, amended: the stop test compares the cumulative shown bytes with all
\* the allocated bytes of the heap, those of chunks with id 0 included (in
\* uptr arithmetic), so such chunks do change which site lines are listed.
C11_AllocatedDenominator ==
  pc = "Verbosity" => Len(SiteLines) = LinesListed(AllocatedBytes(heap))

\* A report with more lines than the attributed bytes alone would give.
C11_Witness ==
  /\ pc = "Verbosity"
  /\ AllocatedBytes(heap) # AttributedBytes(heap)
  /\ Len(SiteLines) = 2
  /\ LinesListed(AttributedBytes(heap)) = 1

\* C12: when the allocated bytes are 0 at report time the process aborts
\* and nothing of the report has been written; a report is only begun with
\* allocated bytes > 0.
C12_EmptySnapshotAborts ==
  /\ pc = "aborted" =>
        /\ output = << >>
        /\ AllocatedBytes(heap) = 0
        /\ hp.total_allocated_user_size_ = 0
  /\ pc \in {"PrintHeader", "PrintLoop", "Verbosity"} =>
        AllocatedBytes(heap) > 0
  /\ output # << >> => AllocatedBytes(heap) > 0

C12_Witness ==
  /\ pc = "aborted"
  /\ BagCardinality(heap) = 3
  /\ \E c \in BagToSet(heap) : IsQuarantined(c)

\* C13: the site lines are emitted in non-increasing order of total_size,
\* and they are a prefix of the site list sorted by total_size descending
\* (which holds the records the walk aggregated, all of them).
C13_RankingOrder ==
  pc \in {"PrintLoop", "Verbosity"} =>
    /\ \A j, k \in DOMAIN SiteLines :
          j < k => SiteLines[j].total_size >= SiteLines[k].total_size
    /\ Len(SiteLines) <= Len(hp.allocations_)
    /\ \A k \in DOMAIN SiteLines :
          /\ SiteLines[k].id = hp.allocations_[k].id
          /\ SiteLines[k].total_size = hp.allocations_[k].total_size
          /\ SiteLines[k].count = hp.allocations_[k].count
    /\ \A j, k \in DOMAIN hp.allocations_ :
          j < k => hp.allocations_[j].total_size >= hp.allocations_[k].total_size
    /\ Range(hp.allocations_)
          = Range(AggregateAll(NewHeapProfile, BagToSeq(heap)).allocations_)

C13_Witness ==
  /\ pc = "Verbosity"
  /\ Len(SiteLines) = 3
  /\ SiteLines[1].total_size > SiteLines[2].total_size
  /\ SiteLines[2].total_size > SiteLines[3].total_size

\* C14: an observation changes only what belongs to the record's kind:
\* Allocated with id 0 the allocated bytes and count; Quarantined the
\* quarantined bytes and count; Other the other count; Allocated with id
\* k # 0 the allocated bytes and count and the one site record with id k.
OtherSites(h, k) == {a \in Range(h.allocations_) : a.id # k}

C14_ObserveFrame ==
  [][\A cv \in ChunkRecords :
       pc = "ForEachChunk" /\ CopiesIn(cv, remaining') < CopiesIn(cv, remaining) =>
         /\ IsAllocated(cv) =>
              /\ hp'.total_allocated_user_size_
                    = hp.total_allocated_user_size_ + cv.size
              /\ hp'.total_allocated_count_ = hp.total_allocated_count_ + 1
              /\ hp'.total_quarantined_user_size_ = hp.total_quarantined_user_size_
              /\ hp'.total_quarantined_count_ = hp.total_quarantined_count_
              /\ hp'.total_other_count_ = hp.total_other_count_
              /\ cv.id = 0 => hp'.allocations_ = hp.allocations_
              /\ cv.id # 0 =>
                   /\ OtherSites(hp', cv.id) = OtherSites(hp, cv.id)
                   /\ \A k \in DOMAIN hp.allocations_ :
                         hp.allocations_[k].id # cv.id =>
                           hp'.allocations_[k] = hp.allocations_[k]
                   /\ Cardinality({k \in DOMAIN hp'.allocations_ :
                                     hp'.allocations_[k].id = cv.id}) = 1
         /\ IsQuarantined(cv) =>
              /\ hp'.total_quarantined_user_size_
                    = hp.total_quarantined_user_size_ + cv.size
              /\ hp'.total_quarantined_count_ = hp.total_quarantined_count_ + 1
              /\ hp'.total_allocated_user_size_ = hp.total_allocated_user_size_
              /\ hp'.total_allocated_count_ = hp.total_allocated_count_
              /\ hp'.total_other_count_ = hp.total_other_count_
              /\ hp'.allocations_ = hp.allocations_
         /\ IsOther(cv) =>
              hp' = [hp EXCEPT !.total_other_count_ = hp.total_other_count_ + 1]
    ]_vars

C14_Witness ==
  /\ pc = "ForEachChunk"
  /\ remaining = EmptyBag
  /\ hp.total_other_count_ = 1
  /\ hp.total_quarantined_count_ = 1
  /\ hp.total_allocated_count_ = 1
  /\ hp.allocations_ = << >>

\* The numbers of chunks of the heap, by kind.
AllocatedCount(b) == Len(SelectSeq(BagToSeq(b), IsAllocated))
QuarantinedCount(b) == Len(SelectSeq(BagToSeq(b), IsQuarantined))
OtherCount(b) == Len(SelectSeq(BagToSeq(b), IsOther))
QuarantinedBytes(b) == SumSize(SelectSeq(BagToSeq(b), IsQuarantined))

BothLocksHeld == threadRegistryLock = Caller /\ allocatorLock = Caller

\* C15: every chunk observation happens while the world is frozen and the
\* caller holds both locks; between the freeze and the resume no other
\* thread steps and the chunk set does not change, so the totals of the
\* finished walk are the counts of the heap as it was frozen.
C15_SnapshotWindow ==
  /\ [][(stopped \/ stopped') => (heap' = heap /\ tstate' = tstate)]_vars
  /\ [][hp' # hp => (stopped /\ BothLocksHeld)]_vars
  /\ [](Aggregating => (stopped /\ BothLocksHeld))
  /\ [](Aggregating /\ remaining = EmptyBag =>
          /\ hp.total_allocated_count_ = AllocatedCount(heap)
          /\ hp.total_allocated_user_size_ = AllocatedBytes(heap)
          /\ hp.total_quarantined_count_ = QuarantinedCount(heap)
          /\ hp.total_quarantined_user_size_ = QuarantinedBytes(heap)
          /\ hp.total_other_count_ = OtherCount(heap))

\* The walk of a heap of two chunks is over while another thread is
\* frozen inside the loader.
C15_Witness ==
  /\ pc = "ForEachChunk"
  /\ remaining = EmptyBag
  /\ BagCardinality(heap) = 2
  /\ hp.total_allocated_count_ = 1
  /\ hp.total_quarantined_count_ = 1
  /\ \E t \in Others : tstate[t] = "loader"

HeaderLines == SelectSeq(output, IsHeader)

\* C18: with any number of loaded modules the lock, freeze, walk, unlock
\* sequence runs once per call (the callback stops the module iteration
\* after its first invocation), and one report is produced per call.
C18_SingleFreeze ==
  /\ \A e \in Range(events) : Count(e) = 1
  /\ modIdx <= 1
  /\ Len(HeaderLines) <= 1
  /\ pc = "Resume" => Len(HeaderLines) = 1
  /\ Returned =>
       events = <<"LockThreadRegistry", "LockAllocator", "StopTheWorld",
                  "Resume", "UnlockAllocator", "UnlockThreadRegistry">>

\* The callback has returned for the first of two modules.
C18_Witness ==
  /\ platform = "dl"
  /\ nmodules = 2
  /\ pc = "CallbackReturn"
  /\ modIdx = 1

\* C19: a failing check of the allocated bytes ends the process with the
\* world still frozen and both locks still held by the caller: no resume
\* and no unlock has happened in that call, and none follows.
C19_AbortInsideWindow ==
  /\ [](pc = "aborted" =>
          /\ stopped
          /\ BothLocksHeld
          /\ platform = "dl" => loaderLock = Caller
          /\ events = EventsAtCallback)
  /\ [][pc # "aborted"]_vars

C19_Witness ==
  /\ pc = "aborted"
  /\ platform = "dl"
  /\ nmodules = 2
  /\ BagCardinality(heap) = 2

\* The site records a heap gives rise to: per stack id other than 0, the
\* bytes and the number of its allocated chunks.
ChunksOfSite(b, k) ==
  LET OfSite(c) == IsAllocated(c) /\ c.id = k
  IN SelectSeq(BagToSeq(b), OfSite)

SitesOf(b) ==
  {[id |-> k,
    total_size |-> SumSize(ChunksOfSite(b, k)),
    count |-> Len(ChunksOfSite(b, k))] :
      k \in {c.id : c \in {d \in BagToSet(b) : IsAttributed(d)}}}

\* C17: the aggregator starts every invocation, the first and the later
\* ones, with its five totals at 0 and no site; the totals and the site set
\* of a finished walk are those of the heap alone, so consecutive
\* invocations over the same heap give the same ones.
C17_NoCrossCallState ==
  /\ pc = "ForEachChunk" /\ remaining = heap =>
        /\ hp.total_allocated_user_size_ = 0
        /\ hp.total_allocated_count_ = 0
        /\ hp.total_quarantined_user_size_ = 0
        /\ hp.total_quarantined_count_ = 0
        /\ hp.total_other_count_ = 0
        /\ hp.allocations_ = << >>
  /\ Aggregating /\ remaining = EmptyBag =>
        /\ hp.total_allocated_user_size_ = AllocatedBytes(heap)
        /\ hp.total_allocated_count_ = AllocatedCount(heap)
        /\ hp.total_quarantined_user_size_ = QuarantinedBytes(heap)
        /\ hp.total_quarantined_count_ = QuarantinedCount(heap)
        /\ hp.total_other_count_ = OtherCount(heap)
        /\ Range(hp.allocations_) = SitesOf(heap)
        /\ Len(hp.allocations_) = Cardinality(SitesOf(heap))

\* The walk of the second invocation is over, on a heap with two chunks of
\* one site.
C17_Witness ==
  /\ calls = 2
  /\ pc = "ForEachChunk"
  /\ remaining = EmptyBag
  /\ BagCardinality(heap) = 2
  /\ Len(hp.allocations_) = 1
  /\ hp.allocations_[1].count = 2

InCall == pc \notin {"idle", "aborted"}

\* C16: under fair scheduling every invocation comes to its end, and one
\* that finds allocated bytes > 0 resumes the world and returns with both
\* locks released; the caller is never left waiting for ever.
C16_Termination ==
  /\ InCall ~> ~InCall
  /\ (stopped /\ AllocatedBytes(heap) > 0) ~>
        (pc = "idle" /\ ~stopped /\ loaderLock # Caller
           /\ threadRegistryLock # Caller /\ allocatorLock # Caller)

\* The caller, holding the loader's lock, waits for the thread registry
\* lock while the two other threads hold the two locks it needs.
C16_Witness ==
  /\ pc = "LockThreadRegistry"
  /\ platform = "dl"
  /\ loaderLock = Caller
  /\ threadRegistryLock \in Others
  /\ allocatorLock \in Others
  /\ AllocatedBytes(heap) > 0

====
